---------------------------- MODULE Spec2Model ----------------------------
(***************************************************************************)
(* A model of delft3dfmpy's 1D mesh generation (Network.generate_offsets,  *)
(* Network._generate_1d_spacing, Network.generate_1dnetwork) and of its    *)
(* 1D-2D link administration (Links1d2d), src/delft3dfmpy/core/dfm.py.     *)
(*                                                                         *)
(* Chainages and coordinates are exact rationals <<n, d>> (d > 0, lowest   *)
(* terms) where the program uses binary floating point.                    *)
(***************************************************************************)
EXTENDS Integers, Sequences, FiniteSets, TLC

(***************************************************************************)
(* Bounds of the model.                                                    *)
(***************************************************************************)
\* largest integer anchor value offered to _generate_1d_spacing
MaxAnchor == 5
\* longest anchor sequence offered to _generate_1d_spacing
MaxAnchorPts == 3
\* largest integer target spacing offered
MaxDistance == 3
\* largest branch length and largest structure chainage offered
MaxLen == 3
\* largest number of structures added
MaxStructures == 2
\* the generators are called while no more links than this are stored
MaxLinks == 5
\* largest number of rows of boundaries
MaxBoundaries == 2

\* the default of generate_1dnetwork's one_d_mesh_distance
DefaultMeshDistance == 40

(***************************************************************************)
(* Exact rational arithmetic.                                              *)
(***************************************************************************)
Abs(x) == IF x < 0 THEN -x ELSE x

Max(a, b) == IF a >= b THEN a ELSE b

Min(a, b) == IF a <= b THEN a ELSE b

RECURSIVE GCD(_, _)
GCD(a, b) == IF b = 0 THEN a ELSE GCD(b, a % b)

\* n/d divided through by g, the denominator made positive
Lowest(n, d, g) ==
    IF d < 0 THEN <<(-n) \div g, (-d) \div g>> ELSE <<n \div g, d \div g>>

\* the rational n/d (d # 0) in lowest terms with a positive denominator
Q(n, d) == Lowest(n, d, GCD(Abs(n), Abs(d)))

R(k) == <<k, 1>>

RAdd(a, b) == Q(a[1] * b[2] + b[1] * a[2], a[2] * b[2])

RSub(a, b) == Q(a[1] * b[2] - b[1] * a[2], a[2] * b[2])

RMul(a, b) == Q(a[1] * b[1], a[2] * b[2])

\* a / b for b # 0
RDiv(a, b) == Q(a[1] * b[2], a[2] * b[1])

RLt(a, b) == a[1] * b[2] < b[1] * a[2]

RLe(a, b) == a[1] * b[2] <= b[1] * a[2]

RAbs(a) == <<Abs(a[1]), a[2]>>

Zero == R(0)

(***************************************************************************)
(* Python's round(x) on a float: to the nearest integer, a tie to the even *)
(* one (round(2.5) = 2, round(3.5) = 4).                                   *)
(***************************************************************************)
RoundHalfUp(x) ==
    LET f == x[1] \div x[2]
        r == x[1] % x[2]
    IN  IF 2 * r >= x[2] THEN f + 1 ELSE f

round(x) ==
    LET f == x[1] \div x[2]
        r == x[1] % x[2]
    IN  IF 2 * r < x[2] THEN f
        ELSE IF 2 * r > x[2] THEN f + 1
        ELSE IF f % 2 = 0 THEN f ELSE f + 1

(***************************************************************************)
(* numpy.linspace(start, stop, num, endpoint=False): num points            *)
(* start + k * (stop - start) / num, k = 0 .. num-1.                       *)
(***************************************************************************)
LinspaceWithEndpoint(start, stop, num) ==
    [k \in 1..(num + 1) |->
        RAdd(start, RDiv(RMul(R(k - 1), RSub(stop, start)), R(num)))]

linspace(start, stop, num) ==
    [k \in 1..num |->
        RAdd(start, RDiv(RMul(R(k - 1), RSub(stop, start)), R(num)))]

(***************************************************************************)
(* Network._generate_1d_spacing.  The result is a record: err is "none"    *)
(* and offsets the returned array, or err names the exception raised.      *)
(***************************************************************************)
Raise(e) == [err |-> e, offsets |-> <<>>]

\* the call has not been made yet
Pending == [err |-> "pending", offsets |-> <<>>]

NNodesNoMinimum(section_length, one_d_mesh_distance) ==
    round(RDiv(section_length, one_d_mesh_distance)) + 1

\* nnodes = max(2, int(round(section_length / one_d_mesh_distance) + 1))
nnodes(section_length, one_d_mesh_distance) ==
    Max(2, round(RDiv(section_length, one_d_mesh_distance)) + 1)

NegativeSectionOnly(section_length) == RLt(section_length, Zero)

\* line 854: if section_length <= 0.0
section_not_positive(section_length) == RLe(section_length, Zero)

RECURSIVE spacing_loop(_, _, _, _)
spacing_loop(anchor_pts, one_d_mesh_distance, i, offsets) ==
    IF i > Len(anchor_pts) - 1
    THEN IF Len(anchor_pts) = 0
         THEN Raise("IndexError")
         ELSE [err |-> "none", offsets |-> Append(offsets, anchor_pts[Len(anchor_pts)])]
    ELSE LET section_length == RSub(anchor_pts[i + 1], anchor_pts[i])
         IN  IF section_not_positive(section_length)
             THEN Raise("ValueError")
             ELSE IF one_d_mesh_distance = Zero
             THEN Raise("ZeroDivisionError")
             ELSE spacing_loop(anchor_pts, one_d_mesh_distance, i + 1,
                      offsets \o linspace(anchor_pts[i], anchor_pts[i + 1],
                                     nnodes(section_length, one_d_mesh_distance) - 1))

generate_1d_spacing(anchor_pts, one_d_mesh_distance) ==
    spacing_loop(anchor_pts, one_d_mesh_distance, 1, <<>>)

(***************************************************************************)
(* Dictionaries (Python dict, pandas index) are functions; sorted() and    *)
(* numpy.unique give ascending sequences.                                   *)
(***************************************************************************)
DictSet(d, k, v) == [x \in (DOMAIN d) \cup {k} |-> IF x = k THEN v ELSE d[x]]

Range(s) == {s[i] : i \in DOMAIN s}

\* the members of a finite set of rationals, ascending
RECURSIVE SortedSet(_)
SortedSet(S) ==
    IF S = {} THEN <<>>
    ELSE LET m == CHOOSE x \in S : \A y \in S : RLe(x, y)
         IN  <<m>> \o SortedSet(S \ {m})

\* sorted(seq) for a sequence of rationals, equal values kept
RECURSIVE sorted(_)
sorted(seq) ==
    IF seq = <<>> THEN <<>>
    ELSE LET i == CHOOSE k \in DOMAIN seq : \A j \in DOMAIN seq : RLe(seq[k], seq[j])
             rest == [k \in 1..(Len(seq) - 1) |-> IF k < i THEN seq[k] ELSE seq[k + 1]]
         IN  <<seq[i]>> \o sorted(rest)

\* the branch ids the model offers, in Python's string order; "" is the
\* empty id
IdList == <<"", "a", "b", "c", "d">>

IdRank(id) == CHOOSE i \in DOMAIN IdList : IdList[i] = id

BranchIds(brs) == {brs[i].id : i \in DOMAIN brs}

BranchById(brs, id) == brs[CHOOSE i \in DOMAIN brs : brs[i].id = id]

LogEntry(kind, branch, pts) == [kind |-> kind, branch |-> branch, anchor_pts |-> pts]

(***************************************************************************)
(* Network.generate_offsets.                                               *)
(***************************************************************************)
\* the 0.1 added beyond both branch ends (lines 901-902)
Margin == Q(1, 10)

\* lines 869-872: the plain spacing of every branch, in row order
RECURSIVE plain_offsets(_, _, _, _)
\* line 872 for row i, r being the spacing computed for it
store_plain(brs, one_d_mesh_distance, i, offs, r) ==
    IF r.err # "none"
    THEN [raised |-> r.err, offsets |-> offs]
    ELSE plain_offsets(brs, one_d_mesh_distance, i + 1,
                       DictSet(offs, brs[i].id, r.offsets))

plain_offsets(brs, one_d_mesh_distance, i, offs) ==
    IF i > Len(brs) THEN [raised |-> "none", offsets |-> offs]
    ELSE store_plain(brs, one_d_mesh_distance, i, offs,
             generate_1d_spacing(<<Zero, brs[i].length>>, one_d_mesh_distance))

\* lines 879-883: idx marks the rows with an empty branch id, and
\* ids_offsets.loc[idx, :] keeps exactly the marked rows
selected_rows(strs) == {s \in DOMAIN strs : strs[s].branchid = ""}

\* lines 905 and 919: per segment, whether a grid point lies strictly inside
in_range(offs, lower_limits, upper_limits) ==
    [i \in DOMAIN lower_limits |->
        \E j \in DOMAIN offs :
            RLt(lower_limits[i], offs[j]) /\ RLt(offs[j], upper_limits[i])]

\* lines 907-919: add the midpoint of the first segment without grid point
\* to the anchors until every segment has one
RECURSIVE anchor_loop(_, _, _, _, _)
\* lines 915-919 for the anchors pts, r being the spacing computed for them
respace(pts, r, offs, lower_limits, upper_limits, one_d_mesh_distance) ==
    IF r.err # "none"
    THEN [raised |-> r.err, anchor_pts |-> pts, offsets |-> offs]
    ELSE anchor_loop(pts, r.offsets, lower_limits, upper_limits, one_d_mesh_distance)

\* lines 913-915: the anchors sorted, the spacing generated anew
add_anchor(pts, offs, lower_limits, upper_limits, one_d_mesh_distance) ==
    respace(pts, generate_1d_spacing(pts, one_d_mesh_distance), offs,
            lower_limits, upper_limits, one_d_mesh_distance)

anchor_loop(anchor_pts, offs, lower_limits, upper_limits, one_d_mesh_distance) ==
    LET ok == in_range(offs, lower_limits, upper_limits)
        i == CHOOSE k \in DOMAIN ok : ~ok[k] /\ \A j \in DOMAIN ok : j < k => ok[j]
    IN  IF \A k \in DOMAIN ok : ok[k]
        THEN [raised |-> "none", anchor_pts |-> anchor_pts, offsets |-> offs]
        ELSE add_anchor(
                 sorted(Append(anchor_pts,
                               RDiv(RAdd(lower_limits[i], upper_limits[i]), R(2)))),
                 offs, lower_limits, upper_limits, one_d_mesh_distance)

\* lines 888-892: the warning for rows of one group at the same chainage
same_location(strs, rows, branch_id) ==
    IF Cardinality({s \in rows : strs[s].branchid = branch_id})
         > Cardinality({strs[s].chainage :
                           s \in {t \in rows : strs[t].branchid = branch_id}})
    THEN {LogEntry("same_location", branch_id, <<>>)}
    ELSE {}

\* line 895: limits = sorted(group['chainage'].unique())
group_limits(strs, rows, branch_id) ==
    SortedSet({strs[s].chainage : s \in {t \in rows : strs[t].branchid = branch_id}})

\* lines 921-925, r being the outcome of the loop of lines 907-919
group_result(branch_id, r, warn) ==
    IF r.raised # "none"
    THEN [raised |-> r.raised, stored |-> FALSE, offsets |-> <<>>, log |-> warn]
    ELSE [raised |-> "none", stored |-> TRUE, offsets |-> r.offsets,
          log |-> warn \cup (IF Len(r.anchor_pts) > 2
                             THEN {LogEntry("added_nodes", branch_id, r.anchor_pts)}
                             ELSE {})]

\* lines 896-925 for a branch of the given length, first being the spacing of
\* line 897
group_spacing(branch_id, length, limits, first, one_d_mesh_distance, warn) ==
    IF first.err # "none"
    THEN [raised |-> first.err, stored |-> FALSE, offsets |-> <<>>, log |-> warn]
    ELSE IF \A i \in DOMAIN limits : limits[i] = Zero
    THEN [raised |-> "none", stored |-> TRUE, offsets |-> first.offsets, log |-> warn]
    ELSE group_result(branch_id,
             anchor_loop(<<Zero, length>>, first.offsets,
                         <<RSub(Zero, Margin)>> \o limits,
                         Append(limits, RAdd(length, Margin)),
                         one_d_mesh_distance),
             warn)

\* lines 888-925 for one group of rows: the rows of branch_id
group_offsets(brs, strs, rows, branch_id, one_d_mesh_distance) ==
    IF branch_id \notin BranchIds(brs)
    THEN [raised |-> "KeyError", stored |-> FALSE, offsets |-> <<>>,
          log |-> same_location(strs, rows, branch_id)]
    ELSE group_spacing(branch_id, BranchById(brs, branch_id).length,
             group_limits(strs, rows, branch_id),
             generate_1d_spacing(<<Zero, BranchById(brs, branch_id).length>>,
                                 one_d_mesh_distance),
             one_d_mesh_distance, same_location(strs, rows, branch_id))

\* line 886: the groups in ascending order of branch id, each stored in
\* self.offsets before the next; an exception leaves what was stored
RECURSIVE groups_loop(_, _, _, _, _, _, _)
\* line 925 for the group k, g being its outcome
store_group(brs, strs, rows, keys, one_d_mesh_distance, offs, lg, k, g) ==
    IF g.raised # "none"
    THEN [raised |-> g.raised, offsets |-> offs, log |-> lg \cup g.log]
    ELSE groups_loop(brs, strs, rows, keys \ {k}, one_d_mesh_distance,
                     DictSet(offs, k, g.offsets), lg \cup g.log)

next_group(brs, strs, rows, keys, one_d_mesh_distance, offs, lg, k) ==
    store_group(brs, strs, rows, keys, one_d_mesh_distance, offs, lg, k,
                group_offsets(brs, strs, rows, k, one_d_mesh_distance))

groups_loop(brs, strs, rows, keys, one_d_mesh_distance, offs, lg) ==
    IF keys = {} THEN [raised |-> "none", offsets |-> offs, log |-> lg]
    ELSE next_group(brs, strs, rows, keys, one_d_mesh_distance, offs, lg,
                    CHOOSE x \in keys : \A y \in keys : IdRank(x) <= IdRank(y))

\* lines 874-925, plain being the outcome of the loop of lines 869-872
structure_offsets(brs, strs, plain, one_d_mesh_distance) ==
    IF plain.raised # "none"
    THEN [raised |-> plain.raised, offsets |-> plain.offsets, log |-> {}]
    ELSE IF DOMAIN strs = {}
    THEN [raised |-> "none", offsets |-> plain.offsets, log |-> {}]
    ELSE groups_loop(brs, strs, selected_rows(strs),
                     {strs[s].branchid : s \in selected_rows(strs)},
                     one_d_mesh_distance, plain.offsets,
                     IF \E s \in DOMAIN strs : strs[s].branchid = ""
                     THEN {LogEntry("unlinked", "", <<>>)} ELSE {})

\* generate_offsets(one_d_mesh_distance, structures) on the offsets dictionary
\* offs: [raised, offsets, log]
generate_offsets(brs, strs, offs, one_d_mesh_distance) ==
    structure_offsets(brs, strs, plain_offsets(brs, one_d_mesh_distance, 1, offs),
                      one_d_mesh_distance)

(***************************************************************************)
(* Network.generate_1dnetwork.                                             *)
(***************************************************************************)
\* branches.length.argsort(): the row numbers in ascending order of length;
\* numpy sorts an array this short by insertion, which keeps rows of equal
\* length in the order supplied
RECURSIVE argsort(_, _)
argsort(brs, left) ==
    IF left = {} THEN <<>>
    ELSE LET i == CHOOSE k \in left :
                      \A j \in left : \/ RLt(brs[k].length, brs[j].length)
                                      \/ brs[k].length = brs[j].length /\ k <= j
         IN  <<i>> \o argsort(brs, left \ {i})

AsSupplied(brs) == brs

\* line 724: self.branches.iloc[self.branches.length.argsort().values]
sorted_branches(brs) ==
    LET order == argsort(brs, DOMAIN brs)
    IN  [k \in DOMAIN order |-> brs[order[k]]]

\* nodes.index(point) + 1
IndexOf(seq, x) == CHOOSE i \in DOMAIN seq : seq[i] = x /\ \A j \in 1..(i - 1) : seq[j] # x

\* offsets[1:] and offsets[:-1]
DropFirst(seq) == [k \in 1..(Len(seq) - 1) |-> seq[k + 1]]

DropLast(seq) == [k \in 1..(Len(seq) - 1) |-> seq[k]]

\* f'{branch.Index}_{offset:.2f}': the branch id with the offset in hundredths
mesh_point_name(id, offset) == <<id, round(RMul(offset, R(100)))>>

\* the mesh1d object before any network was generated
EmptyMesh ==
    [network_branch_ids |-> <<>>,
     nodes |-> <<>>,
     network_node_ids |-> <<>>,
     nedge_nodes |-> <<>>,
     edge_nodes |-> <<>>,
     branchidx |-> <<>>,
     branchoffsets |-> <<>>,
     mesh1d_node_ids |-> <<>>]

\* the temporary lists of lines 712-714 and 745-749
EmptyLists ==
    [nodes |-> <<>>,
     edge_nodes_dict |-> <<>>,
     network_edge_nodes |-> <<>>,
     mesh1d_edge_nodes |-> <<>>,
     mesh1d_branchidx |-> <<>>,
     mesh1d_branchoffset |-> <<>>]

AlwaysNew(nodes, point) == FALSE

\* lines 768 and 775: whether the point is already in the node list
present(nodes, point) == \E i \in DOMAIN nodes : nodes[i] = point

UnsplicedEdges(start_index, nlinks, first_present, last_present, first_id, last_id) ==
    [i \in 1..nlinks |-> <<start_index + i - 1, start_index + i>>]

\* lines 797-811: the edges of one branch, the end nodes already present
\* replaced by their existing mesh node ids
new_edges(start_index, nlinks, first_present, last_present, first_id, last_id) ==
    [i \in 1..nlinks |->
        <<IF i = 1 /\ first_present THEN first_id ELSE start_index + i - 1,
          IF i = nlinks /\ last_present THEN last_id ELSE start_index + i>>]

AlwaysRemain(offsets) == FALSE

\* line 783: if len(offsets) == 0, no points remain
no_points_remain(offsets) == Len(offsets) = 0

NeverSameNode(i_from, i_to) == FALSE

\* line 787: if i_from == i_to, start and end node are the same
same_node(i_from, i_to) == i_from = i_to

\* lines 752-822 for the branches sorted[i..]: acc holds the temporary lists,
\* ids the description list mesh1d_node_ids
RECURSIVE branch_loop(_, _, _, _, _)
branch_loop(sorted_brs, offs, i, acc, ids) ==
    IF i > Len(sorted_brs) THEN [raised |-> "none", acc |-> acc, ids |-> ids]
    ELSE
    LET branch == sorted_brs[i]
        first_point == branch.first
        last_point == branch.last
    IN  IF branch.id \notin DOMAIN offs
        THEN [raised |-> "KeyError", acc |-> acc, ids |-> ids]
        ELSE
        LET offsets0 == offs[branch.id]
            nlinks0 == Len(offsets0) - 1
            first_present == present(acc.nodes, first_point)
            nodes1 == IF first_present THEN acc.nodes ELSE Append(acc.nodes, first_point)
            offsets1 == IF first_present THEN DropFirst(offsets0) ELSE offsets0
            last_present == present(nodes1, last_point)
            nodes2 == IF last_present THEN nodes1 ELSE Append(nodes1, last_point)
            offsets2 == IF last_present THEN DropLast(offsets1) ELSE offsets1
            halfway == no_points_remain(offsets2)
            offsets3 == IF halfway THEN <<RDiv(branch.length, R(2))>> ELSE offsets2
            nlinks == IF halfway THEN nlinks0 + 1 ELSE nlinks0
            i_from == IndexOf(nodes2, first_point)
            i_to == IndexOf(nodes2, last_point)
        IN  IF same_node(i_from, i_to)
            THEN [raised |-> "ValueError", acc |-> acc, ids |-> ids]
            ELSE
            LET start_index == IF first_present
                               THEN Len(acc.mesh1d_branchidx)
                               ELSE Len(acc.mesh1d_branchidx) + 1
                dict1 == IF first_present THEN acc.edge_nodes_dict
                         ELSE DictSet(acc.edge_nodes_dict, first_point, start_index)
                new_edge_nodes ==
                    new_edges(start_index, nlinks, first_present, last_present,
                              IF first_present THEN acc.edge_nodes_dict[first_point] ELSE 0,
                              IF last_present THEN dict1[last_point] ELSE 0)
                dict2 == IF last_present THEN dict1
                         ELSE DictSet(dict1, last_point, new_edge_nodes[nlinks][2])
            IN  branch_loop(sorted_brs, offs, i + 1,
                    [nodes |-> nodes2,
                     edge_nodes_dict |-> dict2,
                     network_edge_nodes |-> Append(acc.network_edge_nodes, <<i_from, i_to>>),
                     mesh1d_edge_nodes |-> acc.mesh1d_edge_nodes \o new_edge_nodes,
                     mesh1d_branchidx |-> acc.mesh1d_branchidx
                                          \o [k \in DOMAIN offsets3 |-> i],
                     mesh1d_branchoffset |-> acc.mesh1d_branchoffset \o offsets3],
                    ids \o [k \in DOMAIN offsets3 |->
                               mesh_point_name(branch.id, offsets3[k])])

\* lines 824-845: the lists handed to the mesh object; the description lists
\* were extended in place (lines 819-820, 829-830), an exception keeps them
network_result(m, sorted_brs, gen, r) ==
    IF r.raised # "none"
    THEN [raised |-> r.raised, offsets |-> gen.offsets, log |-> gen.log,
          mesh |-> [m EXCEPT !.network_branch_ids =
                                 [k \in DOMAIN sorted_brs |-> sorted_brs[k].id],
                             !.mesh1d_node_ids = r.ids]]
    ELSE [raised |-> "none", offsets |-> gen.offsets, log |-> gen.log,
          mesh |->
            [network_branch_ids |-> [k \in DOMAIN sorted_brs |-> sorted_brs[k].id],
             nodes |-> r.acc.nodes,
             network_node_ids |-> m.network_node_ids \o r.acc.nodes,
             nedge_nodes |-> r.acc.network_edge_nodes,
             edge_nodes |-> r.acc.mesh1d_edge_nodes,
             branchidx |-> r.acc.mesh1d_branchidx,
             branchoffsets |-> r.acc.mesh1d_branchoffset,
             mesh1d_node_ids |-> r.ids]]

\* lines 724-822: the branches sorted by length, then the loop over them
sorted_network(m, sorted_brs, gen) ==
    network_result(m, sorted_brs, gen,
        branch_loop(sorted_brs, gen.offsets, 1, EmptyLists, m.mesh1d_node_ids))

\* lines 720-845, gen being the outcome of line 720-721
build_network(brs, m, gen) ==
    IF gen.raised # "none"
    THEN [raised |-> gen.raised, offsets |-> gen.offsets, mesh |-> m, log |-> gen.log]
    ELSE sorted_network(m, sorted_branches(brs), gen)

NeverEmpty(brs) == FALSE

\* line 706: if self.branches.empty
branches_empty(brs) == brs = <<>>

\* generate_1dnetwork(one_d_mesh_distance) on the state (offsets dictionary
\* offs, mesh m): [raised, offsets, mesh, log]
generate_1dnetwork(brs, strs, offs, m, one_d_mesh_distance) ==
    IF branches_empty(brs)
    THEN [raised |-> "ValueError", offsets |-> offs, mesh |-> m, log |-> {}]
    ELSE build_network(brs, m,
             IF offs = <<>>
             THEN generate_offsets(brs, strs, offs, one_d_mesh_distance)
             ELSE [raised |-> "none", offsets |-> offs, log |-> {}])

(***************************************************************************)
(* State.                                                                  *)
(***************************************************************************)
VARIABLES
    sp_anchor_pts,      \* the anchor_pts argument of a _generate_1d_spacing call
    sp_distance,        \* its one_d_mesh_distance argument
    sp_result,          \* Pending, or what the call returned or raised
    branches,           \* Network.branches: the rows, in the order supplied
    structures,         \* Structures.weirs/culverts/pumps: id -> [branchid, chainage]
    offsets,            \* Network.offsets: branch id -> array of chainages
    mesh1d,             \* Network.mesh1d: the network and mesh arrays and names
    log,                \* what the last call logged
    raised,             \* the exception the last call raised, or "none"
    called,             \* the method called last
    mesh2d,             \* Network.mesh2d: the cells, face id k being cell k
    nodes1d,            \* Links1d2d.nodes1d: the mesh node id of every link
    faces2d,            \* Links1d2d.faces2d: the face id of every link
    boundaries,         \* ExternalForcings.boundaries: the rows [name, geometry]
    last_bc,            \* the boundary location the last call was made for
    removed,            \* whether the last call removed a link
    args                \* the arguments of the last call on the links

spacing_vars == <<sp_anchor_pts, sp_distance, sp_result>>

mesh_vars == <<branches, structures, offsets, mesh1d, log, raised, called>>

links_vars == <<mesh2d, nodes1d, faces2d, boundaries, last_bc, removed, args>>

vars == <<sp_anchor_pts, sp_distance, sp_result,
          branches, structures, offsets, mesh1d, log, raised, called,
          mesh2d, nodes1d, faces2d, boundaries, last_bc, removed, args>>

EmptyDict == <<>>

\* the geometry None of a boundary row, and no boundary location
NoGeometry == <<>>

\* np.inf
Inf == <<1, 0>>

\* the defaults of max_distance and intersecting (lines 430 and 459), which
\* also stand for a call of a method without these parameters
DefaultArgs == [max_distance |-> Inf, intersecting |-> TRUE]

\* Links1d2d.__init__, ExternalForcings.__init__, and no call made yet
InitLinks1d2d ==
    /\ nodes1d = <<>>
    /\ faces2d = <<>>
    /\ boundaries = <<>>
    /\ last_bc = NoGeometry
    /\ removed = FALSE
    /\ args = DefaultArgs

\* the state after DFlowFMModel.__init__
InitModel ==
    /\ branches = <<>>
    /\ structures = EmptyDict
    /\ offsets = EmptyDict
    /\ mesh1d = EmptyMesh
    /\ log = {}
    /\ raised = "none"
    /\ called = "__init__"
    /\ mesh2d = <<>>
    /\ InitLinks1d2d

\* no _generate_1d_spacing call is under study
NoSpacingCall ==
    /\ sp_anchor_pts = <<>>
    /\ sp_distance = Zero
    /\ sp_result = Pending

(***************************************************************************)
(* SpecSpacing: _generate_1d_spacing as a pure function of its arguments.  *)
(***************************************************************************)
RECURSIVE SeqsUpTo(_, _)
SeqsUpTo(S, n) ==
    IF n = 0 THEN {<<>>}
    ELSE LET shorter == SeqsUpTo(S, n - 1)
         IN  shorter \cup {Append(s, x) : s \in shorter, x \in S}

AnchorValues == {R(k) : k \in 0..MaxAnchor}

AnchorInputs == SeqsUpTo(AnchorValues, MaxAnchorPts) \cup {<<R(0), R(100)>>}

DistanceInputs ==
    {R(k) : k \in -1..MaxDistance} \cup {Q(1, 2), R(DefaultMeshDistance)}

InitSpacing ==
    /\ sp_anchor_pts \in AnchorInputs
    /\ sp_distance \in DistanceInputs
    /\ sp_result = Pending
    /\ InitModel

CallSpacing ==
    /\ sp_result = Pending
    /\ sp_result' = generate_1d_spacing(sp_anchor_pts, sp_distance)
    /\ UNCHANGED <<sp_anchor_pts, sp_distance>>
    /\ UNCHANGED mesh_vars
    /\ UNCHANGED links_vars

NextSpacing == CallSpacing

SpecSpacing == InitSpacing /\ [][NextSpacing]_vars

(***************************************************************************)
(* SpecOffsets: branches are set, structures are added, and                *)
(* generate_offsets is called with Structures.as_dataframe() (None, here   *)
(* the empty dictionary, when no structure was added), as                  *)
(* generate_1dnetwork calls it.                                            *)
(***************************************************************************)
\* a branch row: its id (the index), the first and last coordinate of its
\* geometry and the geometry's length
Branch(id, first, last, length) ==
    [id |-> id, first |-> first, last |-> last, length |-> R(length)]

Lengths == 1..MaxLen

\* one or two branches that share no end point, the ids "" and "a" or "a"
\* and "b"
OffsetsBranchInputs ==
    {<<>>}
    \cup {<<Branch(IdList[k], <<0, 0>>, <<1, 0>>, l)>> : k \in 1..2, l \in Lengths}
    \cup {<<Branch(IdList[k], <<0, 0>>, <<1, 0>>, l1),
            Branch(IdList[k + 1], <<0, 1>>, <<1, 1>>, l2)>> :
              k \in 1..2, l1 \in Lengths, l2 \in Lengths}

MeshDistances == {R(k) : k \in 1..MaxDistance} \cup {Q(1, 2)}

StructureIds == <<"s1", "s2", "s3", "s4">>

StructureBranchIds == {"", "a"}

Chainages == {R(k) : k \in 0..MaxLen}

InitOffsets == InitModel /\ NoSpacingCall

\* Network.set_branches
SetBranches(bs) ==
    /\ branches = <<>>
    /\ offsets = EmptyDict
    /\ branches' = bs
    /\ log' = {}
    /\ raised' = "none"
    /\ called' = "set_branches"
    /\ UNCHANGED <<structures, offsets, mesh1d>>
    /\ UNCHANGED spacing_vars
    /\ UNCHANGED links_vars

\* whether a structure at (branchid, chainage) comes no earlier than row s
NotBefore(s, branchid, chainage) ==
    \/ IdRank(s.branchid) < IdRank(branchid)
    \/ s.branchid = branchid /\ RLe(s.chainage, chainage)

\* Structures.add_weir, add_pump, add_culvert: self.weirs[id] = {...}.
\* The structure ids do not matter to the mesh, so the structures are added
\* in ascending order of (branch id, chainage).
AddStructure(branchid, chainage) ==
    /\ offsets = EmptyDict
    /\ Cardinality(DOMAIN structures) < MaxStructures
    /\ \A s \in DOMAIN structures : NotBefore(structures[s], branchid, chainage)
    /\ structures' = DictSet(structures,
                             StructureIds[Cardinality(DOMAIN structures) + 1],
                             [branchid |-> branchid, chainage |-> chainage])
    /\ log' = {}
    /\ raised' = "none"
    /\ called' = "add_weir"
    /\ UNCHANGED <<branches, offsets, mesh1d>>
    /\ UNCHANGED spacing_vars
    /\ UNCHANGED links_vars

\* Network.generate_offsets(one_d_mesh_distance, structures), called as
\* generate_1dnetwork calls it: when self.offsets is empty
CallGenerateOffsets(one_d_mesh_distance) ==
    /\ offsets = EmptyDict
    /\ \E r \in {generate_offsets(branches, structures, offsets, one_d_mesh_distance)} :
           /\ offsets' = r.offsets
           /\ log' = r.log
           /\ raised' = r.raised
    /\ called' = "generate_offsets"
    /\ UNCHANGED <<branches, structures, mesh1d>>
    /\ UNCHANGED spacing_vars
    /\ UNCHANGED links_vars

\* Network.generate_1dnetwork(one_d_mesh_distance).  The description lists
\* of mesh1d grow with every call, so a call is made only while
\* mesh1d_node_ids holds no more names than there are mesh nodes.
CallGenerate1dNetwork(one_d_mesh_distance) ==
    /\ Len(mesh1d.mesh1d_node_ids) <= Len(mesh1d.branchidx)
    /\ \E r \in {generate_1dnetwork(branches, structures, offsets, mesh1d,
                                     one_d_mesh_distance)} :
           /\ offsets' = r.offsets
           /\ mesh1d' = r.mesh
           /\ log' = r.log
           /\ raised' = r.raised
    /\ called' = "generate_1dnetwork"
    /\ UNCHANGED <<branches, structures>>
    /\ UNCHANGED spacing_vars
    /\ UNCHANGED links_vars

NextOffsets ==
    \/ branches = <<>> /\ \E bs \in OffsetsBranchInputs : SetBranches(bs)
    \/ offsets = EmptyDict /\ \E b \in StructureBranchIds, c \in Chainages : AddStructure(b, c)
    \/ \E d \in MeshDistances : CallGenerateOffsets(d)
    \/ \E d \in MeshDistances : CallGenerate1dNetwork(d)

SpecOffsets == InitOffsets /\ [][NextOffsets]_vars

(***************************************************************************)
(* SpecNetwork: one to three branches whose end points may coincide, no    *)
(* structures, and generate_1dnetwork called on them (a second call        *)
(* regenerates the mesh).                                                  *)
(***************************************************************************)
\* the coordinates end points are taken from
PointList == <<<<0, 0>>, <<1, 0>>, <<2, 0>>, <<0, 1>>, <<1, 1>>, <<2, 1>>>>

RECURSIVE SeqMax(_)
SeqMax(seq) == IF seq = <<>> THEN 0 ELSE Max(seq[Len(seq)], SeqMax(DropLast(seq)))

\* the ways n end points coincide: sequences over point numbers in which
\* every point number first occurs after all smaller ones (generate_1dnetwork
\* compares coordinates only for equality)
RECURSIVE Coincidences(_)
Coincidences(n) ==
    IF n = 0 THEN {<<>>}
    ELSE UNION {{Append(e, x) : x \in 1..(SeqMax(e) + 1)} : e \in Coincidences(n - 1)}

BranchesOn(e, lengths) ==
    [k \in DOMAIN lengths |->
        Branch(IdList[k + 1], PointList[e[2 * k - 1]], PointList[e[2 * k]], lengths[k])]

NetworkBranchInputs ==
    {<<>>}
    \cup {BranchesOn(e, <<l1>>) : e \in Coincidences(2), l1 \in Lengths}
    \cup {BranchesOn(e, <<l1, l2>>) :
              e \in Coincidences(4), l1 \in Lengths, l2 \in Lengths}
    \cup {BranchesOn(e, <<l1, l2, l3>>) :
              e \in Coincidences(6), l1 \in Lengths, l2 \in Lengths, l3 \in Lengths}

InitNetwork == InitModel /\ NoSpacingCall

NextNetwork ==
    \/ branches = <<>> /\ \E bs \in NetworkBranchInputs : SetBranches(bs)
    \/ \E d \in MeshDistances : CallGenerate1dNetwork(d)

SpecNetwork == InitNetwork /\ [][NextNetwork]_vars

(***************************************************************************)
(* Links1d2d: the 1D-2D links.  nodes1d and faces2d are parallel lists,    *)
(* link k joining mesh node nodes1d[k] and face faces2d[k]; ids count from *)
(* 1.  A links record lk carries the two lists, the exception raised and   *)
(* whether the removal of a link was logged (line 576).                    *)
(***************************************************************************)
\* a list or array given entry by entry, its entries computed once
array(f) == f \o <<>>

RMax(a, b) == IF RLe(b, a) THEN a ELSE b

RMin(a, b) == IF RLe(a, b) THEN a ELSE b

\* the point at the given chainage of a straight branch
interpolate(branch, chainage) ==
    <<RAdd(R(branch.first[1]),
           RMul(RDiv(chainage, branch.length), R(branch.last[1] - branch.first[1]))),
      RAdd(R(branch.first[2]),
           RMul(RDiv(chainage, branch.length), R(branch.last[2] - branch.first[2])))>>

\* mesh1d.get_nodes(): the coordinates of the mesh nodes, node k lying on
\* branch branchidx[k] at chainage branchoffsets[k]
get_nodes(brs, m) ==
    array([k \in DOMAIN m.branchidx |->
              interpolate(BranchById(brs, m.network_branch_ids[m.branchidx[k]]),
                          m.branchoffsets[k])])

\* a rectangular cell of the 2D mesh
Cell(x0, x1, y0, y1) == [x0 |-> x0, x1 |-> x1, y0 |-> y0, y1 |-> y1]

\* mesh2d.get_faces(geometry='center'), facex and facey: the cell centres
get_faces_center(m2) ==
    array([k \in DOMAIN m2 |->
              <<RDiv(RAdd(m2[k].x0, m2[k].x1), R(2)),
                RDiv(RAdd(m2[k].y0, m2[k].y1), R(2))>>])

\* the square of the distance between two points
dist2(p, q) ==
    RAdd(RMul(RSub(p[1], q[1]), RSub(p[1], q[1])),
         RMul(RSub(p[2], q[2]), RSub(p[2], q[2])))

\* np.argmin(dists): the place of the first least entry
argmin(dists) ==
    CHOOSE i \in DOMAIN dists :
        \A j \in DOMAIN dists :
            RLt(dists[i], dists[j]) \/ (dists[i] = dists[j] /\ i <= j)

\* the squares of the distances from the points pts to q
dists2(pts, q) == array([k \in DOMAIN pts |-> dist2(pts[k], q)])

\* KDTree(pts).query(q): the number of the point nearest to q
query(pts, q) == argmin(dists2(pts, q))

\* get_nearest.query(qs): for every point of qs the number of the nearest
\* point of pts
query_all(pts, qs) == array([k \in DOMAIN qs |-> query(pts, qs[k])])

AlwaysCloser(d2, max_distance) == TRUE

\* distance < max_distance, d2 being the square of the distance
closer(d2, max_distance) ==
    RLt(Zero, max_distance) /\ RLt(d2, RMul(max_distance, max_distance))

NeverFarther(d2, max_distance) == FALSE

\* distance > max_distance
farther(d2, max_distance) ==
    RLt(max_distance, Zero) \/ RLt(RMul(max_distance, max_distance), d2)

\* close = (distance < max_distance) for the queries qs and their nearest
\* points
close(pts, qs, idx_nearest, max_distance) ==
    array([k \in DOMAIN qs |->
              closer(dist2(qs[k], pts[idx_nearest[k]]), max_distance)])

\* arr[keep]: numpy's indexing of an array by a boolean array
RECURSIVE mask(_, _, _)
mask(arr, keep, k) ==
    IF k > Len(arr) THEN <<>>
    ELSE (IF keep[k] THEN <<arr[k]>> ELSE <<>>) \o mask(arr, keep, k + 1)

\* np.arange(n) + 1
arange(n) == array([k \in 1..n |-> k])

\* arr[idx]: numpy's indexing of an array by an index array
take(arr, idx) == array([k \in DOMAIN idx |-> arr[idx[k]]])

\* self.nodes1d.extend(...) and self.faces2d.extend(...)
extend(lk, new_nodes1d, new_faces2d) ==
    [lk EXCEPT !.nodes1d = @ \o new_nodes1d, !.faces2d = @ \o new_faces2d]

\* the turn from p to q to c: positive to the left, negative to the right
side(p, q, c) ==
    RSub(RMul(RSub(q[1], p[1]), RSub(c[2], p[2])),
         RMul(RSub(q[2], p[2]), RSub(c[1], p[1])))

\* the turns from p to q to the four corners of the cell
sides(cell, p, q) ==
    <<side(p, q, <<cell.x0, cell.y0>>), side(p, q, <<cell.x1, cell.y0>>),
      side(p, q, <<cell.x0, cell.y1>>), side(p, q, <<cell.x1, cell.y1>>)>>

\* whether the corners lie neither all to the left nor all to the right
straddles(turns) ==
    /\ \E k \in DOMAIN turns : RLe(turns[k], Zero)
    /\ \E k \in DOMAIN turns : RLe(Zero, turns[k])

\* Polygon(cell).intersects(LineString([p, q])): the segment and the closed
\* rectangle share a point
intersects(cell, p, q) ==
    /\ RLe(cell.x0, RMax(p[1], q[1]))
    /\ RLe(RMin(p[1], q[1]), cell.x1)
    /\ RLe(cell.y0, RMax(p[2], q[2]))
    /\ RLe(RMin(p[2], q[2]), cell.y1)
    /\ straddles(sides(cell, p, q))

\* list.pop(loc)
pop(seq, loc) ==
    array([k \in 1..(Len(seq) - 1) |-> IF k < loc THEN seq[k] ELSE seq[k + 1]])

PopMisaligned(lk, loc) ==
    [lk EXCEPT !.nodes1d = pop(@, loc), !.faces2d = pop(@, 1)]

\* lines 571-573 and 651-653: the link at place loc removed from both lists
pop_link(lk, loc) ==
    [lk EXCEPT !.nodes1d = pop(@, loc), !.faces2d = pop(@, loc)]

\* line 576: logger.info('Removed link(s) from 1d node ...')
log_removed(lk) == [lk EXCEPT !.removed = TRUE]

PopOnce(lk, item) ==
    IF \E k \in DOMAIN lk.nodes1d : lk.nodes1d[k] = item
    THEN log_removed(pop_link(lk, IndexOf(lk.nodes1d, item)))
    ELSE lk

\* lines 570-576: while item in self.nodes1d, the first link of that node is
\* removed and the removal logged
RECURSIVE remove_item(_, _)
remove_item(lk, item) ==
    IF \E k \in DOMAIN lk.nodes1d : lk.nodes1d[k] = item
    THEN remove_item(log_removed(pop_link(lk, IndexOf(lk.nodes1d, item))), item)
    ELSE lk

\* lines 569-573: for item in to_remove, in ascending order
RECURSIVE remove_items(_, _)
remove_items(lk, items) ==
    IF items = {} THEN lk
    ELSE remove_items(remove_item(lk, CHOOSE x \in items : \A y \in items : x <= y),
                      items \ {CHOOSE x \in items : \A y \in items : x <= y})

OnlyNearest(edge_nodes, node_id) == {node_id}

\* line 568: np.unique(edge_nodes[(edge_nodes == node_id).any(axis=1)]), the
\* nodes of the edges that have node_id at an end
to_remove(edge_nodes, node_id) ==
    UNION {{edge_nodes[k][1], edge_nodes[k][2]} :
              k \in {j \in DOMAIN edge_nodes :
                        edge_nodes[j][1] = node_id \/ edge_nodes[j][2] = node_id}}

\* lines 561-573 for the nearest node node_id; counts has the nodes that
\* occur in edge_nodes only
check_node(edge_nodes, lk, node_id) ==
    IF \A k \in DOMAIN edge_nodes : edge_nodes[k][1] # node_id /\ edge_nodes[k][2] # node_id
    THEN [lk EXCEPT !.raised = "KeyError"]
    ELSE remove_items(lk, to_remove(edge_nodes, node_id))

\* check_boundary_link(bc) on the links lk, centroid being bc.geometry.centroid
check_boundary_link(nodes, edge_nodes, lk, centroid) ==
    IF lk.nodes1d = <<>> \/ lk.faces2d = <<>>
    THEN lk
    ELSE check_node(edge_nodes, lk, query(nodes, centroid))

NoBoundaries(bnds) == <<>>

\* lines 454-456 and 536-538: the rows of boundaries, those without a
\* geometry skipped
checked_boundaries(bnds) ==
    mask(bnds, array([k \in DOMAIN bnds |-> bnds[k].geometry # NoGeometry]), 1)

\* lines 454-457 and 536-539: check_boundary_link for every row of bnds from
\* row i on
RECURSIVE check_boundaries(_, _, _, _, _)
check_boundaries(nodes, edge_nodes, lk, bnds, i) ==
    IF i > Len(bnds) \/ lk.raised # "none" THEN lk
    ELSE check_boundaries(nodes, edge_nodes,
             check_boundary_link(nodes, edge_nodes, lk, bnds[i].geometry),
             bnds, i + 1)

\* lines 446-451, idx_nearest being the nearest face of every node
extend_1d_to_2d(lk, nodes, centers, idx_nearest, max_distance) ==
    extend(lk,
           mask(arange(Len(nodes)), close(centers, nodes, idx_nearest, max_distance), 1),
           mask(idx_nearest, close(centers, nodes, idx_nearest, max_distance), 1))

\* generate_1d_to_2d(max_distance) on the links lk
generate_1d_to_2d(nodes, centers, edge_nodes, lk, bnds, max_distance) ==
    check_boundaries(nodes, edge_nodes,
        extend_1d_to_2d(lk, nodes, centers, query_all(centers, nodes), max_distance),
        checked_boundaries(bnds), 1)

\* lines 473-483: the faces, pre-selected by the distance to the nearest
\* node when a max_distance is given
preselect(nodes, centers, max_distance) ==
    IF RLt(max_distance, Inf)
    THEN mask(arange(Len(centers)),
              close(nodes, centers, query_all(nodes, centers), max_distance), 1)
    ELSE arange(Len(centers))

\* geometry.find_nearest_branch(branches, cells, method) and the dropna of
\* line 503: with 'intersecting' the cells that intersect a branch remain,
\* with 'overal' every cell has a nearest branch
find_nearest_branch(brs, m2, idx, intersecting) ==
    IF intersecting
    THEN mask(idx,
              array([k \in DOMAIN idx |->
                        \E b \in DOMAIN brs :
                            intersects(m2[idx[k]],
                                       <<R(brs[b].first[1]), R(brs[b].first[2])>>,
                                       <<R(brs[b].last[1]), R(brs[b].last[2])>>)]),
              1)
    ELSE idx

ExtendByPosition(lk, nodes, faces, cells, idx_nearest, max_distance) ==
    extend(lk,
           mask(idx_nearest, close(nodes, faces, idx_nearest, max_distance), 1),
           mask(arange(Len(cells)), close(nodes, faces, idx_nearest, max_distance), 1))

\* lines 504-512, cells being the face ids that remain and idx_nearest the
\* nearest node of each
extend_2d_to_1d(lk, nodes, faces, cells, idx_nearest, max_distance) ==
    extend(lk,
           mask(idx_nearest, close(nodes, faces, idx_nearest, max_distance), 1),
           mask(cells, close(nodes, faces, idx_nearest, max_distance), 1))

MaskNodesOnly(lk, keep) == [lk EXCEPT !.nodes1d = mask(@, keep, 1)]

\* lines 522-533: the links kept, keep[k] telling whether link k is
mask_links(lk, keep) ==
    [lk EXCEPT !.nodes1d = mask(@, keep, 1), !.faces2d = mask(@, keep, 1)]

\* lines 514-533: the links that intersect more than one of the cells are
\* dropped; get_1d2dlinks returns None when there is no link, and
\* links.itertuples() fails on it
drop_crossing(lk, nodes, centers, m2, cells) ==
    IF lk.nodes1d = <<>>
    THEN [lk EXCEPT !.raised = "AttributeError"]
    ELSE mask_links(lk,
             array([k \in DOMAIN lk.nodes1d |->
                       Cardinality({c \in Range(cells) :
                                       intersects(m2[c], nodes[lk.nodes1d[k]],
                                                  centers[lk.faces2d[k]])}) <= 1]))

\* lines 504-539, cells being the face ids that remain after line 503
link_cells(nodes, centers, m2, edge_nodes, lk, bnds, max_distance, intersecting, cells) ==
    check_boundaries(nodes, edge_nodes,
        IF intersecting
        THEN extend_2d_to_1d(lk, nodes, take(centers, cells), cells,
                             query_all(nodes, take(centers, cells)), max_distance)
        ELSE drop_crossing(
                 extend_2d_to_1d(lk, nodes, take(centers, cells), cells,
                                 query_all(nodes, take(centers, cells)), max_distance),
                 nodes, centers, m2, cells),
        checked_boundaries(bnds), 1)

\* generate_2d_to_1d(max_distance, intersecting) on the links lk
generate_2d_to_1d(brs, nodes, centers, m2, edge_nodes, lk, bnds, max_distance, intersecting) ==
    link_cells(nodes, centers, m2, edge_nodes, lk, bnds, max_distance, intersecting,
               find_nearest_branch(brs, m2, preselect(nodes, centers, max_distance),
                                   intersecting))

\* lines 648-653: every link whose entry in linkdim is item is removed
RECURSIVE remove_link_item(_, _, _)
remove_link_item(lk, mesh, item) ==
    IF \E k \in DOMAIN lk.nodes1d :
           (IF mesh = "1d" THEN lk.nodes1d[k] ELSE lk.faces2d[k]) = item
    THEN remove_link_item(
             pop_link(lk, IndexOf(IF mesh = "1d" THEN lk.nodes1d ELSE lk.faces2d, item)),
             mesh, item)
    ELSE lk

\* lines 640-653, pts being the nodes or the cell centres
remove_nearest(dists, lk, mesh, max_distance) ==
    IF farther(dists[argmin(dists)], max_distance)
    THEN lk
    ELSE remove_link_item(lk, mesh, argmin(dists))

\* remove_1d2d_link(x, y, mesh, max_distance) on the links lk
remove_1d2d_link(nodes, centers, lk, xy, mesh, max_distance) ==
    IF mesh = "1d" THEN remove_nearest(dists2(nodes, xy), lk, mesh, max_distance)
    ELSE IF mesh = "2d" THEN remove_nearest(dists2(centers, xy), lk, mesh, max_distance)
    ELSE [lk EXCEPT !.raised = "ValueError"]

\* self.boundaries.loc[name] = {...}: the row of that name is replaced, or a
\* new row is added
set_boundary(bnds, name, geom) ==
    IF \E k \in DOMAIN bnds : bnds[k].name = name
    THEN array([k \in DOMAIN bnds |->
                   IF bnds[k].name = name THEN [name |-> name, geometry |-> geom]
                   ELSE bnds[k]])
    ELSE Append(bnds, [name |-> name, geometry |-> geom])

(***************************************************************************)
(* SpecLinks: a 1D mesh generated once and a 2D mesh, both fixed; links    *)
(* are generated and removed and boundary conditions are added in any      *)
(* order.                                                                  *)
(***************************************************************************)
\* the networks the mesh is generated from, with their mesh distance: one
\* branch with three mesh nodes, the same branch with the two end nodes
\* only, and three branches that meet at (2, 0)
LinkNetworks ==
    {[branches |-> <<Branch("a", <<0, 0>>, <<4, 0>>, 4)>>, distance |-> R(2)],
     [branches |-> <<Branch("a", <<0, 0>>, <<4, 0>>, 4)>>, distance |-> R(4)],
     [branches |-> <<Branch("a", <<0, 0>>, <<2, 0>>, 2),
                     Branch("b", <<2, 0>>, <<4, 0>>, 2),
                     Branch("c", <<2, 0>>, <<2, 2>>, 2)>>,
      distance |-> R(1)]}

\* a 2D mesh of nx by ny square cells of side 2, the centre of the first at
\* (1/4, -1/8), numbered row by row
Grid(nx, ny) ==
    array([k \in 1..(nx * ny) |->
              Cell(Q(8 * ((k - 1) % nx) - 3, 4), Q(8 * ((k - 1) % nx) + 5, 4),
                   Q(16 * ((k - 1) \div nx) - 9, 8), Q(16 * ((k - 1) \div nx) + 7, 8))])

Mesh2dInputs == {Grid(3, 2)}

\* the max_distance arguments offered to the generators
LinkDistances == {R(0), Q(1, 4), Q(1, 2), Inf}

\* the centroids of the boundary geometries offered: beyond the branch end
\* (0, 0), and beside the node (2, 0), which has two edges in the first
\* network and three in the second
Centroids == {<<Q(-9, 10), R(0)>>, <<R(2), Q(-9, 10)>>}

\* the names of the boundary conditions, in the order of their first use
BoundaryNames == <<"bc1", "bc2">>

\* the calls of remove_1d2d_link offered, (x, y), mesh and max_distance: the
\* face at (1/4, -1/8), the node at (2, 0), a point farther than
\* max_distance from every node, and a mesh that does not exist
RemoveCalls ==
    {<<<<R(0), R(0)>>, "2d", R(2)>>,
     <<<<Q(9, 4), Q(-1, 8)>>, "1d", R(2)>>,
     <<<<Q(9, 4), Q(-1, 8)>>, "1d", Q(1, 4)>>,
     <<<<R(0), R(0)>>, "3d", R(2)>>}

InitLinks ==
    /\ NoSpacingCall
    /\ \E net \in LinkNetworks :
           \E r \in {generate_1dnetwork(net.branches, EmptyDict, EmptyDict, EmptyMesh,
                                        net.distance)} :
               /\ branches = net.branches
               /\ offsets = r.offsets
               /\ mesh1d = r.mesh
               /\ log = r.log
               /\ raised = r.raised
    /\ structures = EmptyDict
    /\ called = "generate_1dnetwork"
    /\ mesh2d \in Mesh2dInputs
    /\ InitLinks1d2d

\* the stored links as a links record
stored_links ==
    [nodes1d |-> nodes1d, faces2d |-> faces2d, raised |-> "none", removed |-> FALSE]

\* remove_1d2d_link logs nothing: whether it removed a link shows in the
\* number of links
shorter(lk) == [lk EXCEPT !.removed = Len(lk.nodes1d) < Len(nodes1d)]

\* what a call leaves behind: the links, the exception, and the record of
\* the call
Return(lk, method, bc, a) ==
    /\ nodes1d' = lk.nodes1d
    /\ faces2d' = lk.faces2d
    /\ raised' = lk.raised
    /\ removed' = lk.removed
    /\ called' = method
    /\ last_bc' = bc
    /\ args' = a
    /\ UNCHANGED <<branches, structures, offsets, mesh1d, log, mesh2d>>
    /\ UNCHANGED spacing_vars

\* Links1d2d.generate_1d_to_2d(max_distance)
Generate1dTo2d(max_distance) ==
    /\ Len(nodes1d) <= MaxLinks
    /\ Return(generate_1d_to_2d(get_nodes(branches, mesh1d), get_faces_center(mesh2d),
                                mesh1d.edge_nodes, stored_links, boundaries,
                                max_distance),
              "generate_1d_to_2d", NoGeometry,
              [DefaultArgs EXCEPT !.max_distance = max_distance])
    /\ UNCHANGED boundaries

\* Links1d2d.generate_2d_to_1d(max_distance, intersecting)
Generate2dTo1d(max_distance, intersecting) ==
    /\ Len(nodes1d) <= MaxLinks
    /\ Return(generate_2d_to_1d(branches, get_nodes(branches, mesh1d),
                                get_faces_center(mesh2d), mesh2d, mesh1d.edge_nodes,
                                stored_links, boundaries, max_distance, intersecting),
              "generate_2d_to_1d", NoGeometry,
              [max_distance |-> max_distance, intersecting |-> intersecting])
    /\ UNCHANGED boundaries

\* Links1d2d.check_boundary_link(bc), bc having the given centroid
CheckBoundaryLink(centroid) ==
    /\ Return(check_boundary_link(get_nodes(branches, mesh1d), mesh1d.edge_nodes,
                                  stored_links, centroid),
              "check_boundary_link", centroid, DefaultArgs)
    /\ UNCHANGED boundaries

\* Links1d2d.remove_1d2d_link(x, y, mesh, max_distance)
Remove1d2dLink(xy, mesh, max_distance) ==
    /\ Return(shorter(remove_1d2d_link(get_nodes(branches, mesh1d),
                                       get_faces_center(mesh2d), stored_links, xy,
                                       mesh, max_distance)),
              "remove_1d2d_link", NoGeometry,
              [xy |-> xy, mesh |-> mesh, max_distance |-> max_distance])
    /\ UNCHANGED boundaries

\* whether a row of that name may be set: the name has a row, or it is the
\* first of names without one and there is room for a row
MaySet(name, names) ==
    \/ \E k \in DOMAIN boundaries : boundaries[k].name = name
    \/ /\ Len(boundaries) < MaxBoundaries
       /\ \A i \in DOMAIN names :
              names[i] = name =>
                  \A j \in 1..(i - 1) :
                      \E k \in DOMAIN boundaries : boundaries[k].name = names[j]

\* ExternalForcings.add_boundary_condition(name, pt, bctype, series), the
\* geometry made for pt having the given centroid
AddBoundaryCondition(name, centroid) ==
    /\ MaySet(name, BoundaryNames)
    /\ boundaries' = set_boundary(boundaries, name, centroid)
    /\ Return(check_boundary_link(get_nodes(branches, mesh1d), mesh1d.edge_nodes,
                                  stored_links, centroid),
              "add_boundary_condition", centroid, DefaultArgs)

\* ExternalForcings.add_rain_series(name, values, times)
AddRainSeries(name) ==
    /\ MaySet(name, <<name>>)
    /\ boundaries' = set_boundary(boundaries, name, NoGeometry)
    /\ Return(stored_links, "add_rain_series", NoGeometry, DefaultArgs)

NextLinks ==
    \/ \E d \in LinkDistances : Generate1dTo2d(d)
    \/ \E d \in LinkDistances, i \in BOOLEAN : Generate2dTo1d(d, i)
    \/ \E c \in Centroids : CheckBoundaryLink(c)
    \/ \E r \in RemoveCalls : Remove1d2dLink(r[1], r[2], r[3])
    \/ \E n \in Range(BoundaryNames), c \in Centroids : AddBoundaryCondition(n, c)
    \/ AddRainSeries("rain")

SpecLinks == InitLinks /\ [][NextLinks]_vars

(***************************************************************************)
(* Properties of _generate_1d_spacing (checked under SpecSpacing).         *)
(***************************************************************************)
StrictlyIncreasing(s) == \A i \in 1..(Len(s) - 1) : RLt(s[i], s[i + 1])

\* the arguments the spacing contract admits
ValidSpacingInput ==
    /\ Len(sp_anchor_pts) >= 2
    /\ StrictlyIncreasing(sp_anchor_pts)
    /\ RLt(Zero, sp_distance)

SpacingCalled == sp_result # Pending

ExampleCall ==
    /\ sp_anchor_pts = <<R(0), R(100)>>
    /\ sp_distance = R(40)
    /\ SpacingCalled

\* C3 as stated: anchors [0, 100] with target spacing 40 give the 4 grid
\* points 0, 100/3, 200/3, 100.
C3_FourPoints ==
    ExampleCall =>
        sp_result = [err |-> "none",
                     offsets |-> <<R(0), Q(100, 3), Q(200, 3), R(100)>>]

\* C3 amended: anchors [0, 100] with target spacing 40 give the 3 grid
\* points 0, 50, 100, because round(100/40) = round(2.5) = 2 (a tie goes to
\* the even integer) and 2 + 1 = 3 nodes.
C3_ThreePoints ==
    ExampleCall =>
        sp_result = [err |-> "none", offsets |-> <<R(0), R(50), R(100)>>]

C3_Witness == ExampleCall /\ sp_result.err = "none"

\* C4: for strictly increasing anchors (at least 2) and a target spacing
\* > 0 the output is strictly increasing, starts at the first anchor, ends
\* at the last anchor and holds every anchor value.
C4_Monotone ==
    (ValidSpacingInput /\ SpacingCalled) =>
        LET out == sp_result.offsets
        IN  /\ sp_result.err = "none"
            /\ Len(out) >= 2
            /\ StrictlyIncreasing(out)
            /\ out[1] = sp_anchor_pts[1]
            /\ out[Len(out)] = sp_anchor_pts[Len(sp_anchor_pts)]
            /\ \A i \in 1..Len(sp_anchor_pts) :
                   \E j \in 1..Len(out) : out[j] = sp_anchor_pts[i]

C4_Witness ==
    /\ ValidSpacingInput
    /\ SpacingCalled
    /\ Len(sp_anchor_pts) = 3
    /\ Len(sp_result.offsets) > 4

\* the integer nearest to x >= 0, the even one of two equally near
NearestInteger(x) ==
    CHOOSE k \in 0..((x[1] \div x[2]) + 1) :
        LET twice == RMul(R(2), RAbs(RSub(R(k), x)))
        IN  \/ RLt(twice, R(1))
            \/ twice = R(1) /\ k % 2 = 0

\* the indices of the output that lie in [lo, hi)
IndicesWithin(out, lo, hi) ==
    {j \in 1..Len(out) : RLe(lo, out[j]) /\ RLt(out[j], hi)}

RECURSIVE SumOver(_, _)
SumOver(f, S) ==
    IF S = {} THEN 0
    ELSE LET x == CHOOSE y \in S : TRUE
         IN  f[x] + SumOver(f, S \ {x})

\* C5: each consecutive anchor pair (a_i, a_i+1), L = a_i+1 - a_i,
\* contributes max(2, round(L / spacing) + 1) - 1 grid points, evenly spaced
\* from a_i and without a_i+1; the output has the sum of these counts plus 1
\* elements, which for a single segment is within 1 of L / spacing + 1.
C5_SegmentCounts ==
    (ValidSpacingInput /\ SpacingCalled) =>
        LET out == sp_result.offsets
            segs == 1..(Len(sp_anchor_pts) - 1)
            L(i) == RSub(sp_anchor_pts[i + 1], sp_anchor_pts[i])
            count == [i \in segs |->
                         Max(2, NearestInteger(RDiv(L(i), sp_distance)) + 1) - 1]
        IN  /\ \A i \in segs :
                   LET within == IndicesWithin(out, sp_anchor_pts[i], sp_anchor_pts[i + 1])
                       first == CHOOSE j \in within : \A k \in within : j <= k
                   IN  /\ Cardinality(within) = count[i]
                       /\ \A j \in within :
                              out[j] = RAdd(sp_anchor_pts[i],
                                            RDiv(RMul(R(j - first), L(i)), R(count[i])))
            /\ Len(out) = SumOver(count, segs) + 1
            /\ Len(sp_anchor_pts) = 2 =>
                   RLe(RAbs(RSub(R(Len(out)),
                                 RAdd(RDiv(L(1), sp_distance), R(1)))), R(1))

C5_Witness ==
    /\ ValidSpacingInput
    /\ SpacingCalled
    /\ Len(sp_anchor_pts) = 3
    /\ RSub(sp_anchor_pts[2], sp_anchor_pts[1]) = R(1)
    /\ RSub(sp_anchor_pts[3], sp_anchor_pts[2]) = R(4)
    /\ sp_distance = R(2)
    /\ Len(sp_result.offsets) = 4

(***************************************************************************)
(* Properties of generate_offsets (checked under SpecOffsets).             *)
(***************************************************************************)
\* generate_offsets, called directly or by generate_1dnetwork, has returned
OffsetsGenerated ==
    /\ called \in {"generate_offsets", "generate_1dnetwork"}
    /\ raised = "none"

StructureRows == {structures[s] : s \in DOMAIN structures}

\* the structures of a branch that lie strictly inside it
InteriorStructures(branch) ==
    {s \in StructureRows :
        /\ s.branchid = branch.id
        /\ RLt(Zero, s.chainage)
        /\ RLt(s.chainage, branch.length)}

\* C1: after generate_offsets / generate_1dnetwork, for every structure with
\* a non-empty branch id whose chainage lies strictly inside its branch, no
\* grid offset of the branch equals the chainage, one grid offset lies
\* strictly before it and one strictly after it.
C1_NoOffsetAtStructure ==
    OffsetsGenerated =>
        \A i \in DOMAIN branches :
            branches[i].id # "" =>
                \A s \in InteriorStructures(branches[i]) :
                    LET offs == offsets[branches[i].id]
                    IN  /\ \A j \in DOMAIN offs : offs[j] # s.chainage
                        /\ \E j \in DOMAIN offs : RLt(offs[j], s.chainage)
                        /\ \E j \in DOMAIN offs : RLt(s.chainage, offs[j])

\* the plain spacing of a branch: what generate_offsets stores for a branch
\* no structure constrains
PlainSpacing(branch, offs) ==
    /\ Len(offs) >= 2
    /\ offs[1] = Zero
    /\ offs[Len(offs)] = branch.length
    /\ \A j \in 1..(Len(offs) - 1) :
           RSub(offs[j + 1], offs[j]) = RDiv(branch.length, R(Len(offs) - 1))

\* C2: generate_offsets applies spacing constraints for exactly the
\* structures with a non-empty branch id.  A call made with structures of
\* an empty branch id does not fail because of them, logs a warning, and
\* gives every branch without structures of its own its plain spacing;
\* any two structures at different chainages of a branch with a non-empty
\* id get a grid point between them.
C2_OnlyLinkedStructuresConstrain ==
    (called \in {"generate_offsets", "generate_1dnetwork"} /\ branches # <<>>) =>
        /\ (\A s \in StructureRows : s.branchid = "") =>
               /\ raised = "none"
               /\ StructureRows # {} => \E l \in log : l.kind = "unlinked"
               /\ \A i \in DOMAIN branches :
                      PlainSpacing(branches[i], offsets[branches[i].id])
        /\ raised = "none" =>
               \A i \in DOMAIN branches :
                   branches[i].id # "" =>
                       \A s1, s2 \in InteriorStructures(branches[i]) :
                           RLt(s1.chainage, s2.chainage) =>
                               \E j \in DOMAIN offsets[branches[i].id] :
                                   /\ RLt(s1.chainage, offsets[branches[i].id][j])
                                   /\ RLt(offsets[branches[i].id][j], s2.chainage)

(***************************************************************************)
(* Properties of generate_1dnetwork (checked under SpecNetwork).           *)
(***************************************************************************)
NetworkGenerated == called = "generate_1dnetwork" /\ raised = "none"

\* the end point coordinates of the branches, one entry per branch end
EndPoints == [k \in 1..(2 * Len(branches)) |->
                 IF k % 2 = 1 THEN branches[(k + 1) \div 2].first
                 ELSE branches[k \div 2].last]

NoSharedEndPoint ==
    \A j, k \in DOMAIN EndPoints : j # k => EndPoints[j] # EndPoints[k]

\* C6: after generate_1dnetwork every distinct end point coordinate is in
\* the network node list exactly once, so there are at most 2 x branch count
\* nodes, with equality iff no two branch end points coincide; two branches
\* sharing one end point give exactly 3 network nodes.
C6_NodesOncePerCoordinate ==
    NetworkGenerated =>
        /\ Range(mesh1d.nodes) = Range(EndPoints)
        /\ \A j, k \in DOMAIN mesh1d.nodes :
               j # k => mesh1d.nodes[j] # mesh1d.nodes[k]
        /\ Len(mesh1d.nodes) <= 2 * Len(branches)
        /\ Len(mesh1d.nodes) = 2 * Len(branches) <=> NoSharedEndPoint
        /\ (Len(branches) = 2 /\ Cardinality(Range(EndPoints)) = 3) =>
               Len(mesh1d.nodes) = 3

C6_Witness ==
    /\ NetworkGenerated
    /\ Len(branches) = 2
    /\ branches[1].last = branches[2].first
    /\ Cardinality(Range(EndPoints)) = 3
    /\ Len(mesh1d.nodes) = 3


(***************************************************************************)
(* Properties of the 1D-2D links (checked under SpecLinks).                *)
(***************************************************************************)
\* the places of the least entries of dists
Least(dists) ==
    {n \in DOMAIN dists : \A m \in DOMAIN dists : RLe(dists[n], dists[m])}

\* the mesh nodes at the least distance from the point c
NearestNodes(c) == Least(dists2(get_nodes(branches, mesh1d), c))

\* the mesh nodes one edge away from node n
Adjacent(n) ==
    {m \in DOMAIN mesh1d.branchidx :
        \E k \in DOMAIN mesh1d.edge_nodes :
            mesh1d.edge_nodes[k] = <<n, m>> \/ mesh1d.edge_nodes[k] = <<m, n>>}

\* no stored link is on a node nearest to c or one edge away from it
NoLinkNear(c) ==
    \A n \in NearestNodes(c) :
        \A k \in DOMAIN nodes1d : nodes1d[k] # n /\ nodes1d[k] \notin Adjacent(n)

\* C7: after any sequence of generate_1d_to_2d, generate_2d_to_1d,
\* check_boundary_link and remove_1d2d_link calls (no boundary has been set:
\* only these four methods have been called), no (mesh node id, face id)
\* pair is stored more than once.
C7_NoDuplicatePairs ==
    (boundaries = <<>> /\ raised = "none") =>
        \A i, j \in DOMAIN nodes1d :
            i # j => <<nodes1d[i], faces2d[i]>> # <<nodes1d[j], faces2d[j]>>

\* C8: after check_boundary_link for a boundary location has returned, no
\* stored link is on the mesh node nearest to the location's centroid or on
\* a mesh node one edge away from that node, whatever the degree of the
\* nearest node.
C8_NearestAndAdjacentRemoved ==
    (called = "check_boundary_link" /\ raised = "none") => NoLinkNear(last_bc)

\* check_boundary_link has removed links for a location whose nearest node
\* is a bifurcation (three edges), and other links remain
C8_Witness ==
    /\ called = "check_boundary_link"
    /\ raised = "none"
    /\ removed
    /\ nodes1d # <<>>
    /\ \E n \in NearestNodes(last_bc) : Cardinality(Adjacent(n)) = 3

C10_Idempotent ==
    (called = "check_boundary_link" /\ raised = "none") =>
        /\ check_boundary_link(get_nodes(branches, mesh1d), mesh1d.edge_nodes,
                               stored_links, last_bc).nodes1d = nodes1d
        /\ check_boundary_link(get_nodes(branches, mesh1d), mesh1d.edge_nodes,
                               stored_links, last_bc).faces2d = faces2d

\* check_boundary_link has removed links, and the filtered list still has
\* two links on one node, so that a second application searches it again
C10_Witness ==
    /\ called = "check_boundary_link"
    /\ raised = "none"
    /\ removed
    /\ nodes1d # <<>>
    /\ \E i, j \in DOMAIN nodes1d : i # j /\ nodes1d[i] = nodes1d[j]


\* the stored links as a list of (mesh node id, face id) pairs
Pairs(nodes, faces) == [k \in DOMAIN nodes |-> <<nodes[k], faces[k]>>]

\* whether s is t with some entries left out
RECURSIVE IsSubSequence(_, _)
IsSubSequence(s, t) ==
    IF s = <<>> THEN TRUE
    ELSE IF t = <<>> THEN FALSE
    ELSE IF Head(s) = Head(t) THEN IsSubSequence(Tail(s), Tail(t))
    ELSE IsSubSequence(s, Tail(t))

\* C11: check_boundary_link and remove_1d2d_link only remove links: the two
\* lists stay equally long and the list of (mesh node id, face id) pairs
\* after the call is the list before it with some pairs left out, the others
\* unaltered and in their order.
C11_OnlyRemoves ==
    [][called' \in {"check_boundary_link", "remove_1d2d_link"} =>
          /\ Len(nodes1d') = Len(faces2d')
          /\ IsSubSequence(Pairs(nodes1d', faces2d'), Pairs(nodes1d, faces2d))]_vars

\* remove_1d2d_link has removed a link and left at least two links on
\* different nodes and faces
C11_Witness ==
    /\ called = "remove_1d2d_link"
    /\ raised = "none"
    /\ removed
    /\ \E i, j \in DOMAIN nodes1d : nodes1d[i] # nodes1d[j] /\ faces2d[i] # faces2d[j]


\* the pairs that after holds behind the first n
Added(after, n) == SubSeq(after, n + 1, Len(after))

\* a distance, its square being d2, is strictly less than max_distance
StrictlyWithin(d2, max_distance) ==
    \/ max_distance = Inf
    \/ RLt(Zero, max_distance) /\ RLt(d2, RMul(max_distance, max_distance))

\* the pairs (node, nearest face centre) at a distance strictly less than
\* max_distance
PairsWithin(nodes, centers, max_distance) ==
    {<<k, f>> \in (DOMAIN nodes) \X (DOMAIN centers) :
        /\ f \in Least(dists2(centers, nodes[k]))
        /\ StrictlyWithin(dist2(nodes[k], centers[f]), max_distance)}

\* C12: generate_1d_to_2d (no boundary condition being registered, so that
\* no link is removed again) keeps the links stored before and adds, for
\* every mesh node, the pair (node, nearest face centre) once if and only if
\* the distance to that centre is strictly less than max_distance; with the
\* default max_distance every node gets its pair.
C12_LinksWithinDistance ==
    [][(called' = "generate_1d_to_2d" /\ raised' = "none" /\ boundaries = <<>>) =>
          /\ Len(nodes1d') = Len(faces2d')
          /\ Len(nodes1d') >= Len(nodes1d)
          /\ SubSeq(Pairs(nodes1d', faces2d'), 1, Len(nodes1d)) = Pairs(nodes1d, faces2d)
          /\ Range(Added(Pairs(nodes1d', faces2d'), Len(nodes1d)))
                 = PairsWithin(get_nodes(branches, mesh1d), get_faces_center(mesh2d),
                               args'.max_distance)
          /\ Len(nodes1d') - Len(nodes1d)
                 = Cardinality(PairsWithin(get_nodes(branches, mesh1d),
                                           get_faces_center(mesh2d),
                                           args'.max_distance))]_vars

\* generate_1d_to_2d has run with a max_distance of 1/2 and no boundary
\* condition: some nodes have a link and a node farther than 1/2 from every
\* face centre has none
C12_Witness ==
    /\ called = "generate_1d_to_2d"
    /\ raised = "none"
    /\ boundaries = <<>>
    /\ args.max_distance = Q(1, 2)
    /\ nodes1d # <<>>
    /\ \E k \in DOMAIN mesh1d.branchidx : \A i \in DOMAIN nodes1d : nodes1d[i] # k


\* the faces of the 2D mesh whose polygon the segment from p to q intersects
FacesCrossed(p, q) == {c \in DOMAIN mesh2d : intersects(mesh2d[c], p, q)}

IntersectsBranch(f) ==
    \E b \in DOMAIN branches :
        intersects(mesh2d[f], <<R(branches[b].first[1]), R(branches[b].first[2])>>,
                   <<R(branches[b].last[1]), R(branches[b].last[2])>>)

\* the pairs (nearest node, face) of the faces that intersect a branch
PairsOnBranches(nodes, centers) ==
    {<<k, f>> \in (DOMAIN nodes) \X (DOMAIN centers) :
        IntersectsBranch(f) /\ k \in Least(dists2(nodes, centers[f]))}

\* of these, the pairs at a distance strictly less than max_distance
PairsOnBranchesWithin(nodes, centers, max_distance) ==
    {p \in PairsOnBranches(nodes, centers) :
        StrictlyWithin(dist2(nodes[p[1]], centers[p[2]]), max_distance)}

\* C14 as stated: generate_2d_to_1d with intersecting=True (a max_distance
\* above 0, no boundary condition registered) adds a link to its nearest
\* mesh node for every face whose polygon intersects a branch, and for no
\* other face.
C14_EveryIntersectingFace ==
    [][(/\ called' = "generate_2d_to_1d"
        /\ args'.intersecting
        /\ RLt(Zero, args'.max_distance)
        /\ raised' = "none"
        /\ boundaries = <<>>) =>
          Range(Added(Pairs(nodes1d', faces2d'), Len(nodes1d)))
              = PairsOnBranches(get_nodes(branches, mesh1d), get_faces_center(mesh2d))]_vars

\* C14 amended: generate_2d_to_1d with intersecting=True (no boundary
\* condition registered) keeps the links stored before and adds, once, the
\* link to its nearest mesh node for every face whose polygon intersects a
\* branch and whose centre is at a distance strictly less than max_distance
\* from that node, and for no other face; with the default max_distance
\* these are all the faces that intersect a branch.
C14_IntersectingFacesWithin ==
    [][(/\ called' = "generate_2d_to_1d"
        /\ args'.intersecting
        /\ raised' = "none"
        /\ boundaries = <<>>) =>
          /\ Len(nodes1d') = Len(faces2d')
          /\ Len(nodes1d') >= Len(nodes1d)
          /\ SubSeq(Pairs(nodes1d', faces2d'), 1, Len(nodes1d)) = Pairs(nodes1d, faces2d)
          /\ Range(Added(Pairs(nodes1d', faces2d'), Len(nodes1d)))
                 = PairsOnBranchesWithin(get_nodes(branches, mesh1d),
                                         get_faces_center(mesh2d), args'.max_distance)
          /\ Len(nodes1d') - Len(nodes1d)
                 = Cardinality(PairsOnBranchesWithin(get_nodes(branches, mesh1d),
                                                     get_faces_center(mesh2d),
                                                     args'.max_distance))]_vars

\* generate_2d_to_1d has run with intersecting=True and a max_distance of
\* 1/2: faces that intersect the branch have a link, and a face that
\* intersects it but lies farther than 1/2 from every node has none, as has
\* a face that intersects no branch
C14_Witness ==
    /\ called = "generate_2d_to_1d"
    /\ args.intersecting
    /\ args.max_distance = Q(1, 2)
    /\ raised = "none"
    /\ boundaries = <<>>
    /\ nodes1d # <<>>
    /\ \E f \in DOMAIN mesh2d :
           IntersectsBranch(f) /\ \A i \in DOMAIN faces2d : faces2d[i] # f
    /\ \E f \in DOMAIN mesh2d :
           ~IntersectsBranch(f) /\ \A i \in DOMAIN faces2d : faces2d[i] # f


\* C15: every offset sequence that generate_offsets (called by itself or by
\* generate_1dnetwork) has stored for a branch is strictly increasing, lies
\* within [0, branch length] and has 0 and the branch length in it, whatever
\* the structures.
C15_OffsetsSpanBranch ==
    OffsetsGenerated =>
        \A id \in DOMAIN offsets :
            /\ StrictlyIncreasing(offsets[id])
            /\ \A k \in DOMAIN offsets[id] :
                   /\ RLe(Zero, offsets[id][k])
                   /\ RLe(offsets[id][k], BranchById(branches, id).length)
            /\ \E k \in DOMAIN offsets[id] : offsets[id][k] = Zero
            /\ \E k \in DOMAIN offsets[id] :
                   offsets[id][k] = BranchById(branches, id).length


\* what generate_1dnetwork(one_d_mesh_distance) returns on the branches and
\* structures when nothing has been generated before
Fresh(one_d_mesh_distance) ==
    generate_1dnetwork(branches, structures, EmptyDict, EmptyMesh, one_d_mesh_distance)

\* C16: after a generate_1dnetwork call, also a repeated one, the offsets and
\* the 1D mesh (nodes, node id lists, edges) are those that some
\* one_d_mesh_distance yields on the branches from scratch: nothing is
\* carried over or accumulated from an earlier call.
C16_RegeneratedFromScratch ==
    NetworkGenerated =>
        \E d \in MeshDistances : offsets = Fresh(d).offsets /\ mesh1d = Fresh(d).mesh


\* whether a branch has the same first and last coordinate
RingBranch(b) == branches[b].first = branches[b].last

\* C17: generate_1dnetwork fails with an error whenever a branch has the
\* same first and last coordinate, and the mesh never holds a branch whose
\* two end network nodes are the same node.
C17_RingsRejected ==
    /\ (called = "generate_1dnetwork" /\ \E b \in DOMAIN branches : RingBranch(b)) =>
           raised # "none"
    /\ \A k \in DOMAIN mesh1d.nedge_nodes :
           mesh1d.nedge_nodes[k][1] # mesh1d.nedge_nodes[k][2]

\* generate_1dnetwork has raised ValueError on three branches of which only
\* the last to be processed is a ring
C17_Witness ==
    /\ called = "generate_1dnetwork"
    /\ raised = "ValueError"
    /\ Len(branches) = 3
    /\ RingBranch(3)
    /\ ~RingBranch(1)
    /\ ~RingBranch(2)
    /\ RLt(branches[1].length, branches[3].length)
    /\ RLt(branches[2].length, branches[3].length)

(***************************************************************************)
(* C18: _generate_1d_spacing fails with an error when the target spacing   *)
(* is not positive or when there are fewer than two anchors, and returns   *)
(* no offsets for such input.                                              *)
(***************************************************************************)
C18_InvalidInputRejected ==
    (sp_result # Pending /\ (RLe(sp_distance, Zero) \/ Len(sp_anchor_pts) < 2)) =>
        sp_result.err # "none"

(***************************************************************************)
(* C19: _generate_1d_spacing fails with an error whenever two consecutive  *)
(* anchors are equal or decreasing, and returns no offsets then.           *)
(***************************************************************************)
DegenerateSegment(anchor_pts) ==
    \E i \in 1..(Len(anchor_pts) - 1) :
        RLe(RSub(anchor_pts[i + 1], anchor_pts[i]), Zero)

C19_DegenerateSegmentRejected ==
    (sp_result # Pending /\ DegenerateSegment(sp_anchor_pts)) =>
        sp_result.err # "none" /\ sp_result.offsets = <<>>

C19_Witness ==
    /\ sp_result.err = "ValueError"
    /\ Len(sp_anchor_pts) = 3
    /\ RLt(sp_anchor_pts[1], sp_anchor_pts[2])
    /\ sp_anchor_pts[2] = sp_anchor_pts[3]
    /\ RLt(Zero, sp_distance)

(***************************************************************************)
(* C20: a link generator called with max_distance <= 0 fails with an       *)
(* error instead of returning.                                             *)
(***************************************************************************)
C20_InvalidDistanceRejected ==
    (called \in {"generate_1d_to_2d", "generate_2d_to_1d"} /\ RLe(args.max_distance, Zero)) =>
        raised # "none"

(***************************************************************************)
(* C21: a link generator that finds no candidate link, generate_2d_to_1d   *)
(* with intersecting=False included, completes without error and leaves an *)
(* empty link set.  No face passes the filters when none has its centre    *)
(* within max_distance of a mesh node.                                     *)
(***************************************************************************)
NoCandidate ==
    preselect(get_nodes(branches, mesh1d), get_faces_center(mesh2d),
              args.max_distance) = <<>>

C21_NoCandidateNoError ==
    (/\ called \in {"generate_1d_to_2d", "generate_2d_to_1d"}
     /\ RLt(Zero, args.max_distance)
     /\ NoCandidate
     /\ nodes1d = <<>>
     /\ faces2d = <<>>) => raised = "none"

(***************************************************************************)
(* C22: generate_1dnetwork on an empty branch collection fails with an     *)
(* error and leaves the mesh, the offsets and the node lists as they were. *)
(***************************************************************************)
C22_EmptyNetworkRejected ==
    [][(called' = "generate_1dnetwork" /\ branches = <<>>) =>
           /\ raised' # "none"
           /\ offsets' = offsets
           /\ mesh1d' = mesh1d
           /\ branches' = branches
           /\ structures' = structures]_vars

C22_Witness ==
    /\ called = "generate_1dnetwork"
    /\ branches = <<>>
    /\ raised = "ValueError"
    /\ structures # EmptyDict
    /\ mesh1d = EmptyMesh
    /\ offsets = EmptyDict

(***************************************************************************)
(* C23: for branches of pairwise distinct lengths the network node ids,    *)
(* the mesh node ids and the edge lists that generate_1dnetwork produces   *)
(* are the same for every order in which the branches were supplied.       *)
(***************************************************************************)
DistinctLengths ==
    \A i, j \in DOMAIN branches : i # j => branches[i].length # branches[j].length

\* the branches supplied in the order p
Permuted(brs, p) == [k \in DOMAIN brs |-> brs[p[k]]]

\* what a first call on the branches brs produces
FreshFrom(brs, one_d_mesh_distance) ==
    generate_1dnetwork(brs, structures, EmptyDict, EmptyMesh, one_d_mesh_distance)

\* the state is the outcome of a first call with this mesh distance
FirstCall(r) ==
    /\ called = "generate_1dnetwork"
    /\ raised = r.raised
    /\ mesh1d = r.mesh
    /\ offsets = r.offsets

C23_OrderIndependent ==
    \A d \in MeshDistances :
        (DistinctLengths /\ FirstCall(FreshFrom(branches, d))) =>
            \A p \in Permutations(DOMAIN branches) :
                LET r == FreshFrom(Permuted(branches, p), d)
                IN  /\ r.raised = raised
                    /\ r.mesh = mesh1d
                    /\ r.offsets = offsets

C23_Witness ==
    /\ NetworkGenerated
    /\ DistinctLengths
    /\ Len(branches) = 3
    /\ RLt(branches[2].length, branches[1].length)
    /\ RLt(branches[3].length, branches[2].length)
    /\ branches[1].last = branches[2].first
    /\ branches[3].first = branches[1].first
    /\ Len(mesh1d.nodes) = 4
    /\ Len(mesh1d.mesh1d_node_ids) = Len(mesh1d.branchidx)
    /\ mesh1d.network_branch_ids = <<"c", "b", "a">>

(***************************************************************************)
(* C24: in generate_1dnetwork a branch end point that an earlier branch    *)
(* already has reuses the mesh node of that branch and gets no new one,    *)
(* every other offset gets the next 1-based id, and the edges of a branch  *)
(* join its consecutive offsets, the reused ids at the ends; so every edge *)
(* end is in 1..number of mesh nodes and there are as many mesh nodes as   *)
(* stored branch offsets.                                                  *)
(***************************************************************************)
\* the k-th branch in the order of processing
Processed(k) == BranchById(branches, mesh1d.network_branch_ids[k])

\* whether a branch processed before the k-th has the end point
Earlier(k, point) ==
    \E j \in 1..(k - 1) : point \in {Processed(j).first, Processed(j).last}

\* the chainages of the k-th branch that carry a mesh node
Chain(k) ==
    LET o == offsets[Processed(k).id]
    IN  IF Len(o) = 2 /\ Earlier(k, Processed(k).first) /\ Earlier(k, Processed(k).last)
        THEN <<o[1], RDiv(Processed(k).length, R(2)), o[2]>>
        ELSE o

\* whether the i-th of these is an end point taken over from an earlier branch
Reused(k, i) ==
    \/ i = 1 /\ Earlier(k, Processed(k).first)
    \/ i = Len(Chain(k)) /\ Earlier(k, Processed(k).last)

\* the mesh node of the k-th branch at the chainage
OwnNode(k, chainage) ==
    CHOOSE n \in DOMAIN mesh1d.branchidx :
        mesh1d.branchidx[n] = k /\ mesh1d.branchoffsets[n] = chainage

\* the mesh node standing for the network node at the point: the node of the
\* first branch processed that has the point as an end
NodeOfPoint(point) ==
    LET j == CHOOSE i \in DOMAIN mesh1d.network_branch_ids :
                 /\ point \in {Processed(i).first, Processed(i).last}
                 /\ ~Earlier(i, point)
    IN  IF Processed(j).first = point
        THEN OwnNode(j, Chain(j)[1])
        ELSE OwnNode(j, Chain(j)[Len(Chain(j))])

ExpectedId(k, i) ==
    IF Reused(k, i)
    THEN NodeOfPoint(IF i = 1 THEN Processed(k).first ELSE Processed(k).last)
    ELSE OwnNode(k, Chain(k)[i])

\* the new nodes of the branches k.. as pairs of branch number and chainage
RECURSIVE ExpectedNodes(_)
ExpectedNodes(k) ==
    IF k > Len(mesh1d.network_branch_ids) THEN <<>>
    ELSE mask(array([i \in DOMAIN Chain(k) |-> <<k, Chain(k)[i]>>]),
              array([i \in DOMAIN Chain(k) |-> ~Reused(k, i)]), 1)
         \o ExpectedNodes(k + 1)

RECURSIVE ExpectedEdges(_)
ExpectedEdges(k) ==
    IF k > Len(mesh1d.network_branch_ids) THEN <<>>
    ELSE array([i \in 1..(Len(Chain(k)) - 1) |->
                   <<ExpectedId(k, i), ExpectedId(k, i + 1)>>])
         \o ExpectedEdges(k + 1)

C24_MeshNodeIds ==
    NetworkGenerated =>
        /\ Len(mesh1d.branchidx) = Len(mesh1d.branchoffsets)
        /\ array([n \in DOMAIN mesh1d.branchidx |->
                     <<mesh1d.branchidx[n], mesh1d.branchoffsets[n]>>]) = ExpectedNodes(1)
        /\ mesh1d.edge_nodes = ExpectedEdges(1)
        /\ \A e \in DOMAIN mesh1d.edge_nodes :
               /\ mesh1d.edge_nodes[e][1] \in 1..Len(mesh1d.branchidx)
               /\ mesh1d.edge_nodes[e][2] \in 1..Len(mesh1d.branchidx)

C24_Witness ==
    /\ NetworkGenerated
    /\ Len(branches) = 3
    /\ Reused(2, 1) /\ ~Reused(2, Len(Chain(2)))
    /\ Reused(3, Len(Chain(3))) /\ ~Reused(3, 1)
    /\ Len(Chain(2)) >= 3
    /\ mesh1d.nedge_nodes = <<<<1, 2>>, <<2, 3>>, <<4, 1>>>>

(***************************************************************************)
(* C25: after generate_1dnetwork every branch owns at least one mesh node; *)
(* a branch whose two end points earlier branches already have and that    *)
(* has no offset in between gets one node at half its length and two       *)
(* edges, from the existing start node to it and from it to the existing   *)
(* end node.                                                               *)
(***************************************************************************)
\* the k-th branch processed has both end points taken over and no offset
\* between them
OnlyEndPoints(k) ==
    /\ Len(offsets[Processed(k).id]) = 2
    /\ Earlier(k, Processed(k).first)
    /\ Earlier(k, Processed(k).last)

OwnNodes(k) == {n \in DOMAIN mesh1d.branchidx : mesh1d.branchidx[n] = k}

EdgesAt(n) ==
    {e \in DOMAIN mesh1d.edge_nodes :
        n \in {mesh1d.edge_nodes[e][1], mesh1d.edge_nodes[e][2]}}

C25_EveryBranchOwnsANode ==
    NetworkGenerated =>
        \A k \in DOMAIN mesh1d.network_branch_ids :
            /\ OwnNodes(k) # {}
            /\ OnlyEndPoints(k) =>
                   \E n \in OwnNodes(k), e \in DOMAIN mesh1d.edge_nodes :
                       /\ OwnNodes(k) = {n}
                       /\ mesh1d.branchoffsets[n] = RDiv(Processed(k).length, R(2))
                       /\ EdgesAt(n) = {e, e + 1}
                       /\ mesh1d.edge_nodes[e] = <<NodeOfPoint(Processed(k).first), n>>
                       /\ mesh1d.edge_nodes[e + 1] = <<n, NodeOfPoint(Processed(k).last)>>

C25_Witness ==
    /\ NetworkGenerated
    /\ Len(branches) = 3
    /\ OnlyEndPoints(3)
    /\ ~OnlyEndPoints(2)
    /\ Processed(3).first # Processed(2).first
    /\ Cardinality(OwnNodes(3)) = 1

(***************************************************************************)
(* C26: the loop of generate_offsets that adds anchors ends for every      *)
(* branch and every set of structure chainages, after at most as many      *)
(* insertions as there are distinct structure chainages on the branch.     *)
(* The anchors of a branch are logged when one was added.                  *)
(***************************************************************************)
\* the distinct chainages of the structures processed for the branch
ProcessedChainages(branch_id) ==
    {structures[s].chainage :
        s \in {t \in selected_rows(structures) : structures[t].branchid = branch_id}}

C26_InsertionsBounded ==
    (called = "generate_offsets" /\ raised = "none") =>
        \A entry \in log :
            entry.kind = "added_nodes" =>
                Len(entry.anchor_pts) - 2 <= Cardinality(ProcessedChainages(entry.branch))

(***************************************************************************)
(* C27: when generate_offsets has finished normally, every open interval   *)
(* between -0.1, the distinct structure chainages processed for a branch   *)
(* in ascending order, and length + 0.1 holds at least one offset of the   *)
(* branch.                                                                 *)
(***************************************************************************)
Covered(offs, lower, upper) ==
    \E j \in DOMAIN offs : RLt(lower, offs[j]) /\ RLt(offs[j], upper)

IntervalsCovered(branch, limits) ==
    \A i \in 1..(Len(limits) + 1) :
        Covered(offsets[branch.id],
                IF i = 1 THEN RSub(Zero, Margin) ELSE limits[i - 1],
                IF i = Len(limits) + 1 THEN RAdd(branch.length, Margin) ELSE limits[i])

C27_IntervalsCovered ==
    (called = "generate_offsets" /\ raised = "none") =>
        \A b \in DOMAIN branches :
            ProcessedChainages(branches[b].id) # {} =>
                IntervalsCovered(branches[b],
                                 SortedSet(ProcessedChainages(branches[b].id)))

\* the same for branches that have a structure away from chainage 0
CoveredUnlessAllAtZero ==
    (called = "generate_offsets" /\ raised = "none") =>
        \A b \in DOMAIN branches :
            ProcessedChainages(branches[b].id) \ {Zero} # {} =>
                IntervalsCovered(branches[b],
                                 SortedSet(ProcessedChainages(branches[b].id)))

(***************************************************************************)
(* C28: remove_1d2d_link(x, y, mesh, max_distance) removes every link on   *)
(* the 1D node (mesh '1d') or 2D face (mesh '2d') nearest to (x, y) when   *)
(* that node or face lies within max_distance, removes nothing when it     *)
(* lies farther, and for any other mesh raises an error and leaves the     *)
(* links as they are.                                                      *)
(***************************************************************************)
\* the numbers of the mesh nodes or of the faces
Items(mesh) == IF mesh = "1d" THEN DOMAIN mesh1d.branchidx ELSE DOMAIN mesh2d

\* the place of the mesh node or of the face centre of number n
PointOf(mesh, n) ==
    IF mesh = "1d"
    THEN interpolate(Processed(mesh1d.branchidx[n]), mesh1d.branchoffsets[n])
    ELSE <<RDiv(RAdd(mesh2d[n].x0, mesh2d[n].x1), R(2)),
           RDiv(RAdd(mesh2d[n].y0, mesh2d[n].y1), R(2))>>

\* the square of the distance from there to the point
Distance2(xy, mesh, n) == dist2(PointOf(mesh, n), xy)

\* no node or face is nearer to the point than the one at distance d2
IsLeast(xy, mesh, d2) == \A m \in Items(mesh) : RLe(d2, Distance2(xy, mesh, m))

\* the pairs that are not on the node or face of that number
PairsOff(nodes, faces, mesh, item) ==
    mask(Pairs(nodes, faces),
         array([k \in DOMAIN nodes |->
                   (IF mesh = "1d" THEN nodes[k] ELSE faces[k]) # item]), 1)

\* the links after the call are those before it without the links of item,
\* which lies at distance d2, or all of them when item lies farther
RemovedAt(a, item, d2) ==
    /\ IsLeast(a.xy, a.mesh, d2)
    /\ Pairs(nodes1d', faces2d') =
           IF RLe(d2, RMul(a.max_distance, a.max_distance))
           THEN PairsOff(nodes1d, faces2d, a.mesh, item)
           ELSE Pairs(nodes1d, faces2d)

RemovedNearest(a) ==
    /\ raised' = "none"
    /\ Len(nodes1d') = Len(faces2d')
    /\ \E item \in Items(a.mesh) : RemovedAt(a, item, Distance2(a.xy, a.mesh, item))

C28_RemovesLinksOfNearest ==
    [][called' = "remove_1d2d_link" =>
           IF args'.mesh \in {"1d", "2d"}
           THEN RemovedNearest(args')
           ELSE raised' # "none" /\ nodes1d' = nodes1d /\ faces2d' = faces2d]_vars

C28_Witness ==
    /\ called = "remove_1d2d_link"
    /\ raised = "none"
    /\ removed
    /\ args.mesh = "1d"
    /\ Len(nodes1d) >= 2
    /\ \A k \in DOMAIN nodes1d : nodes1d[k] # 2

(***************************************************************************)
(* C29: nodes1d and faces2d have the same length in every reachable state, *)
(* and entry i of one and entry i of the other are a pair that a generator *)
(* made together: the face is the one nearest to the node                  *)
(* (generate_1d_to_2d) or the node is the one nearest to the face          *)
(* (generate_2d_to_1d).                                                    *)
(***************************************************************************)
GeneratedTogether(node, face) ==
    \/ IsLeast(PointOf("1d", node), "2d", Distance2(PointOf("1d", node), "2d", face))
    \/ IsLeast(PointOf("2d", face), "1d", Distance2(PointOf("2d", face), "1d", node))

C29_ParallelLists ==
    /\ Len(nodes1d) = Len(faces2d)
    /\ \A i \in DOMAIN nodes1d : GeneratedTogether(nodes1d[i], faces2d[i])

\* a call has removed links, and of the links that remain one joins a face
\* to its nearest node though the node has a nearer face, and another joins
\* a different face
C29_Witness ==
    /\ called \in {"check_boundary_link", "remove_1d2d_link"}
    /\ removed
    /\ Len(nodes1d) >= 3
    /\ \E i, j \in DOMAIN nodes1d :
           /\ faces2d[i] # faces2d[j]
           /\ ~IsLeast(PointOf("1d", nodes1d[i]), "2d",
                       Distance2(PointOf("1d", nodes1d[i]), "2d", faces2d[i]))

=============================================================================
